---- MODULE Spec2Model ----
(***************************************************************************)
(* Model of the chaining containers of ufo_tools (src/ufo_tools/           *)
(* containers.py).  Spec covers the Result container: its constructor,    *)
(* then, recover, unwrap and in_error_state, driven as a pipeline in       *)
(* which every then / recover is called on the container the previous      *)
(* call returned.  SpecChain covers the base Container, Maybe and Array:   *)
(* pipelines of then calls on Container and Maybe, and single then /       *)
(* filter / reduce calls on every Array within the bounds.  SpecArgs       *)
(* covers the forms of the func argument of then (bare callable, or a      *)
(* tuple with an index or a keyword), SpecEq the comparison of two         *)
(* containers, SpecHeap method calls on containers that have an identity,  *)
(* and SpecWrap the decorators retry and coerce_into of                    *)
(* src/ufo_tools/wrappers.py.  SpecStr covers the __str__ methods,         *)
(* SpecMut the decorator mutation_free, with the caller's lists kept in a  *)
(* memory of objects, and SpecPipe bind and pipe of the legacy             *)
(* src/monads module.                                                      *)
(*                                                                         *)
(* Python values are tagged records, so that None, integers, exception     *)
(* objects and the DEFAULT sentinel are pairwise distinct.  A transform    *)
(* handed to then / recover is user code: it is modelled by what its       *)
(* invocation does (returns a value, or raises an exception object that    *)
(* is an instance of an Exception subclass), and every invocation is       *)
(* logged with the argument it received.                                   *)
(***************************************************************************)
EXTENDS Integers, Sequences, FiniteSets, TLC

\* ---------------------------------------------------------------- bounds
\* Integers held by containers range over 0..MaxVal.
MaxVal == 1
\* A pipeline makes at most MaxSteps then / recover calls.
MaxSteps == 3

\* ---------------------------------------------------------------- values
PyNone == [t |-> "None"]
PyInt(i) == [t |-> "int", v |-> i]
PyExc(k) == [t |-> "exc", kind |-> k]
\* containers.py:12  DEFAULT = object()
DEFAULT == [t |-> "DEFAULT"]
\* A Python list with the items xs.
PyList(xs) == [t |-> "list", items |-> xs]

\* Exception classes the transforms raise and unwrap's allow-list names.
\* ZeroDivisionError is a subclass of ArithmeticError; all are subclasses
\* of Exception, so "except Exception" catches every instance.
ExceptionTypes == {"ZeroDivisionError", "ArithmeticError", "AssertionError"}

Val == {PyNone} \cup {PyInt(i) : i \in 0..MaxVal}
Errors == {PyExc(k) : k \in ExceptionTypes}

\* What invoking a transform does: return a value or raise an exception.
Behaviours ==
    {[tag |-> "return", val |-> v] : v \in Val}
        \cup {[tag |-> "raise", val |-> e] : e \in Errors}

\* Python truth value of an object, as "if self.exception:" computes it:
\* None is false, an integer is false iff it is 0, an exception instance
\* (no __bool__ / __len__) is true.
Truthy(x) ==
    CASE x.t = "None" -> FALSE
      [] x.t = "int" -> x.v # 0
      [] OTHER -> TRUE

\* type(x) of an exception object.
TypeOf(x) == x.kind

\* ------------------------------------------------------------ Result
\* Result.__init__(value, exception=None)
Result_init(v, e) ==
    [value |-> v, exception |-> e, value_to_recover |-> PyNone]

\* Variant: the checkpoint is not stored on the error container.
ErrorMonad_no_checkpoint(e, to_recover) ==
    Result_init(PyNone, e)

\* The except branch shared by then and recover:
\*   error_monad = Result(None, exception)
\*   error_monad._value_to_recover = to_recover
ErrorMonad(e, to_recover) ==
    [Result_init(PyNone, e) EXCEPT !.value_to_recover = to_recover]

\* What a method call hands back: the container it returns (ret), whether
\* that container is the receiver itself (is_self), the arguments with
\* which it invoked the transform (calls), and the exception it let
\* propagate to its caller (raised, PyNone when it returned normally).
Returned(c, same, args) ==
    [ret |-> c, is_self |-> same, calls |-> args, raised |-> PyNone]

\* Variants of then, each changed the way a slip in the code would change it.
\* The failure of the transform is let through to the caller.
Result_then_propagates(self, f) ==
    IF Truthy(self.exception)
    THEN Returned(self, TRUE, <<>>)
    ELSE IF f.tag = "return"
         THEN Returned(Result_init(f.val, PyNone), FALSE, <<self.value>>)
         ELSE [ret |-> self, is_self |-> TRUE, calls |-> <<self.value>>,
               raised |-> f.val]

\* The guard "if self.exception" is missing: the transform always runs.
Result_then_always_runs(self, f) ==
    LET to_recover == self.value
    IN  IF f.tag = "return"
        THEN Returned(Result_init(f.val, PyNone), FALSE, <<self.value>>)
        ELSE Returned(ErrorMonad(f.val, to_recover), FALSE, <<self.value>>)

\* The receiver's value is wrapped again instead of the transform's result.
Result_then_keeps_value(self, f) ==
    IF Truthy(self.exception)
    THEN Returned(self, TRUE, <<>>)
    ELSE LET to_recover == self.value
         IN  IF f.tag = "return"
             THEN Returned(Result_init(self.value, PyNone), FALSE, <<self.value>>)
             ELSE Returned(ErrorMonad(f.val, to_recover), FALSE, <<self.value>>)

\* Result.then(func); f is what invoking func does.
Result_then(self, f) ==
    IF Truthy(self.exception)
    THEN Returned(self, TRUE, <<>>)
    ELSE LET to_recover == self.value
         IN  IF f.tag = "return"
             THEN Returned(Result_init(f.val, PyNone), FALSE, <<self.value>>)
             ELSE Returned(ErrorMonad(f.val, to_recover), FALSE, <<self.value>>)

\* Variants of recover.
\* A failed recover keeps no checkpoint (to_recover is read from self.value,
\* which an error container does not hold).
Result_recover_drops_checkpoint(self, f) ==
    IF Truthy(self.exception)
    THEN LET to_recover == self.value
         IN  IF f.tag = "return"
             THEN Returned(Result_init(f.val, PyNone), FALSE,
                           <<self.value_to_recover>>)
             ELSE Returned(ErrorMonad(f.val, to_recover), FALSE,
                           <<self.value_to_recover>>)
    ELSE Returned(self, TRUE, <<>>)

\* The transform is applied to self.value instead of the checkpoint.
Result_recover_from_value(self, f) ==
    IF Truthy(self.exception)
    THEN LET to_recover == self.value_to_recover
         IN  IF f.tag = "return"
             THEN Returned(Result_init(f.val, PyNone), FALSE, <<self.value>>)
             ELSE Returned(ErrorMonad(f.val, to_recover), FALSE, <<self.value>>)
    ELSE Returned(self, TRUE, <<>>)

\* The guard "if self.exception" is missing: recover always runs.
Result_recover_always_runs(self, f) ==
    LET to_recover == self.value_to_recover
    IN  IF f.tag = "return"
        THEN Returned(Result_init(f.val, PyNone), FALSE,
                      <<self.value_to_recover>>)
        ELSE Returned(ErrorMonad(f.val, to_recover), FALSE,
                      <<self.value_to_recover>>)

\* recover on a container without an error returns a copy of it.
Result_recover_copies(self, f) ==
    IF Truthy(self.exception)
    THEN LET to_recover == self.value_to_recover
         IN  IF f.tag = "return"
             THEN Returned(Result_init(f.val, PyNone), FALSE,
                           <<self.value_to_recover>>)
             ELSE Returned(ErrorMonad(f.val, to_recover), FALSE,
                           <<self.value_to_recover>>)
    ELSE Returned(self, FALSE, <<>>)

\* Result.recover(func)
Result_recover(self, f) ==
    IF Truthy(self.exception)
    THEN LET to_recover == self.value_to_recover
         IN  IF f.tag = "return"
             THEN Returned(Result_init(f.val, PyNone), FALSE,
                           <<self.value_to_recover>>)
             ELSE Returned(ErrorMonad(f.val, to_recover), FALSE,
                           <<self.value_to_recover>>)
    ELSE Returned(self, TRUE, <<>>)

\* Variants of unwrap.
\* Without a default the held value (None) is returned instead of raising.
Result_unwrap_silent(self, default, exceptions) ==
    IF self.exception = PyNone THEN [tag |-> "return", val |-> self.value]
    ELSE IF default = DEFAULT THEN [tag |-> "return", val |-> self.value]
    ELSE IF exceptions = {} THEN [tag |-> "return", val |-> default]
    ELSE IF TypeOf(self.exception) \in exceptions
         THEN [tag |-> "return", val |-> default]
    ELSE [tag |-> "raise", val |-> self.exception]

\* The allow-list is matched with isinstance, so a listed base class also
\* admits its subclasses (ZeroDivisionError is an ArithmeticError).
IsInstance(e, cls) ==
    \/ TypeOf(e) = cls
    \/ TypeOf(e) = "ZeroDivisionError" /\ cls = "ArithmeticError"

Result_unwrap_isinstance(self, default, exceptions) ==
    IF self.exception = PyNone THEN [tag |-> "return", val |-> self.value]
    ELSE IF default = DEFAULT THEN [tag |-> "raise", val |-> self.exception]
    ELSE IF exceptions = {} THEN [tag |-> "return", val |-> default]
    ELSE IF \E cls \in exceptions : IsInstance(self.exception, cls)
         THEN [tag |-> "return", val |-> default]
    ELSE [tag |-> "raise", val |-> self.exception]

\* A held None is taken for "no value" and replaced by the default.
Result_unwrap_none_is_missing(self, default, exceptions) ==
    IF self.exception = PyNone /\ (self.value # PyNone \/ default = DEFAULT)
    THEN [tag |-> "return", val |-> self.value]
    ELSE IF default = DEFAULT THEN [tag |-> "raise", val |-> self.exception]
    ELSE IF exceptions = {} THEN [tag |-> "return", val |-> default]
    ELSE IF self.exception = PyNone \/ TypeOf(self.exception) \in exceptions
         THEN [tag |-> "return", val |-> default]
    ELSE [tag |-> "raise", val |-> self.exception]

\* Result.unwrap(default=DEFAULT, *exceptions); exceptions is the set of
\* exception classes listed after default.
Result_unwrap(self, default, exceptions) ==
    IF self.exception = PyNone THEN [tag |-> "return", val |-> self.value]
    ELSE IF default = DEFAULT THEN [tag |-> "raise", val |-> self.exception]
    ELSE IF exceptions = {} THEN [tag |-> "return", val |-> default]
    ELSE IF TypeOf(self.exception) \in exceptions
         THEN [tag |-> "return", val |-> default]
    ELSE [tag |-> "raise", val |-> self.exception]

\* Variant: the error state is read off the held value, so that an Ok
\* container holding None counts as failed.
Result_in_error_state_by_value(self) ==
    self.value = PyNone

\* Result.in_error_state()
Result_in_error_state(self) ==
    self.exception # PyNone

\* ------------------------------------------------------------- state
VARIABLES
    container,     \* the container the pipeline currently holds
    receiver,      \* the container the last then / recover was called on
    op,            \* "init", "then" or "recover": how container was made
    func,          \* behaviour of the transform given to that call
    result,        \* what that call handed back (see Returned)
    steps,         \* number of then / recover calls made so far
    streak,        \* length of the current run of calls of the same class
    lastOk,        \* value of the most recent Ok container of the pipeline
    lastRaised,    \* exception raised by the most recent failing transform
    lastReturned,  \* value returned by the most recent succeeding transform
    chainOk,       \* pipeline = Result(v0) + then calls that all succeeded
    unwrapped,     \* the last unwrap call on container, if any
    startedOk,     \* the pipeline started from Result(v), not Result(v, e)
    lastCall       \* "return" / "raise": what the last invoked transform did
                   \* ("none" while no transform has been invoked)

resultVars == <<container, receiver, op, func, result, steps, streak, lastOk,
                lastRaised, lastReturned, chainOk, unwrapped, startedOk,
                lastCall>>

\* Marker for "there is none" in the history variables.
Absent == [t |-> "absent"]
NotUnwrapped == [called |-> FALSE]

InErr(c) == c.exception # PyNone
IsOk(c) == c.exception = PyNone

\* Class of a then / recover call: which method, and whether the transform
\* was skipped, returned or raised.
CallClass(o, f, r) ==
    <<o, IF r.calls = <<>> THEN "skipped" ELSE f.tag>>

\* ------------------------------------------- Container, Maybe, Array
\* An Array holds at most MaxLen elements.
MaxLen == 2

\* Container.__init__(value); cls is the class that was instantiated.
Container_init(cls, v) ==
    [cls |-> cls, value |-> v]

\* Array.__init__(*values): the values, or the items of the one generator
\* given, as a list.
Array_init(xs) ==
    [cls |-> "Array", value |-> PyList(xs)]

Arrays == UNION {[1..n -> Val] : n \in 0..MaxLen}

\* What the invocations of a transform do, in the order in which they are
\* made: the k-th invocation returns a value or raises.
ChainBehaviours ==
    {[tag |-> "return", val |-> v] : v \in Val}
        \cup {[tag |-> "raise", val |-> PyExc("ZeroDivisionError")]}
ChainFuncs(n) == [1..n -> ChainBehaviours]
\* A combiner given to reduce: what its k-th invocation returns.
Combiners == [1..MaxLen -> Val]
\* Extra positional arguments handed to then / filter.
ExtraArgs == {<<>>, <<PyInt(0)>>, <<PyNone, PyInt(1)>>}

\* A method call that lets exception e propagate, having invoked the
\* transform with the argument lists args.
Raised(e, args) ==
    [ret |-> Absent, is_self |-> FALSE, calls |-> args, raised |-> e]

\* ------------------------------------------- passing the held value on
\* Keyword parameters a transform may be called with.
Names == {"x", "y"}

\* Keyword arguments are a dict over Names; Absent marks a name that is
\* not passed.
NoKwargs == [k \in Names |-> Absent]
Kwarg(k, v) == [NoKwargs EXCEPT ![k] = v]

\* The func argument of then: a bare callable, or a tuple (callable, int)
\* or (callable, str).  f is what invoking the callable does.
Bare(f) == [f |-> f, kind |-> "bare", i |-> 0, name |-> ""]
AtIndex(f, i) == [f |-> f, kind |-> "int", i |-> i, name |-> ""]
AtKeyword(f, k) == [f |-> f, kind |-> "str", i |-> 0, name |-> k]

\* list.insert(i, x): a negative index counts from the end, and an index
\* outside the list is clamped to its ends.
ListInsert(xs, i, x) ==
    LET n == Len(xs)
        j == IF i < 0 THEN (IF i + n < 0 THEN 0 ELSE i + n)
             ELSE (IF i > n THEN n ELSE i)
    IN  SubSeq(xs, 1, j) \o <<x>> \o SubSeq(xs, j + 1, n)

\* left | right on dicts: the keys of both, a key of both taking the value
\* of the right operand.
DictMerge(left, right) ==
    [k \in Names |-> IF right[k] # Absent THEN right[k] ELSE left[k]]

\* Variant: the tuple's index is ignored and the held value always goes
\* first.
Container_value_then_leading(value, fn, args, kwargs) ==
    LET args_list == args
    IN  IF fn.kind # "bare"
        THEN IF fn.kind = "int"
             THEN [tag |-> fn.f.tag, val |-> fn.f.val,
                   call |-> <<value>> \o args_list, kw |-> kwargs]
             ELSE [tag |-> fn.f.tag, val |-> fn.f.val,
                   call |-> args_list,
                   kw |-> DictMerge(Kwarg(fn.name, value), kwargs)]
        ELSE [tag |-> fn.f.tag, val |-> fn.f.val,
              call |-> <<value>> \o args_list, kw |-> kwargs]

\* Container._value_then(value, func, *args, **kwargs): the positional
\* (call) and keyword (kw) arguments with which the callable is invoked,
\* and what that invocation does.
Container_value_then(value, fn, args, kwargs) ==
    LET args_list == args
    IN  IF fn.kind # "bare"
        THEN IF fn.kind = "int"
             THEN [tag |-> fn.f.tag, val |-> fn.f.val,
                   call |-> ListInsert(args_list, fn.i, value),
                   kw |-> kwargs]
             ELSE [tag |-> fn.f.tag, val |-> fn.f.val,
                   call |-> args_list,
                   kw |-> DictMerge(Kwarg(fn.name, value), kwargs)]
        ELSE [tag |-> fn.f.tag, val |-> fn.f.val,
              call |-> <<value>> \o args_list, kw |-> kwargs]

\* Container.then(func, *args, **kwargs) with every form of func; the
\* keyword arguments of the invocation are logged in kwcalls.
Container_then_with(self, fn, args, kwargs) ==
    LET r == Container_value_then(self.value, fn, args, kwargs)
    IN  IF r.tag = "raise"
        THEN [ret |-> Absent, is_self |-> FALSE, calls |-> <<r.call>>,
              raised |-> r.val, kwcalls |-> <<r.kw>>]
        ELSE [ret |-> Container_init("Container", r.val), is_self |-> FALSE,
              calls |-> <<r.call>>, raised |-> PyNone, kwcalls |-> <<r.kw>>]

\* Keyword arguments handed to then besides func.
ExtraKwargs ==
    {NoKwargs, Kwarg("x", PyInt(1)), Kwarg("y", PyNone), Kwarg("y", PyInt(1))}
\* Indices given in a (callable, int) tuple.
Indices == -1..(MaxLen + 1)
\* The forms of func.
Funcs ==
    {Bare(f) : f \in ChainBehaviours}
        \cup {AtIndex(f, i) : f \in ChainBehaviours, i \in Indices}
        \cup {AtKeyword(f, k) : f \in ChainBehaviours, k \in Names}

\* Container._value_then(value, func, *args) for a bare func and no keyword
\* arguments, as then / filter call it in the pipelines below:
\*   return func(value, *args_list, **kwargs)
\* f is what this invocation of func does.
ValueThen(value, f, args) ==
    LET r == Container_value_then(value, Bare(f), args, NoKwargs)
    IN  [tag |-> r.tag, val |-> r.val, call |-> r.call]

\* Variant: a failing transform leaves a container holding None.
Container_then_captures(self, fs, args) ==
    LET r == ValueThen(self.value, fs[1], args)
    IN  IF r.tag = "raise"
        THEN Returned(Container_init("Container", PyNone), FALSE, <<r.call>>)
        ELSE Returned(Container_init("Container", r.val), FALSE, <<r.call>>)

\* Variant: the new container holds the receiver's value again.
Container_then_keeps_value(self, fs, args) ==
    LET r == ValueThen(self.value, fs[1], args)
    IN  IF r.tag = "raise"
        THEN Raised(r.val, <<r.call>>)
        ELSE Returned(Container_init("Container", self.value), FALSE,
                      <<r.call>>)

\* Container.then(func, *args)
Container_then(self, fs, args) ==
    LET r == ValueThen(self.value, fs[1], args)
    IN  IF r.tag = "raise"
        THEN Raised(r.val, <<r.call>>)
        ELSE Returned(Container_init("Container", r.val), FALSE, <<r.call>>)

\* Container.unwrap() (inherited by Array)
Container_unwrap(self) ==
    self.value

\* Variant: the None check is missing, as in Container.then.
Maybe_then_no_check(self, fs, args) ==
    LET r == ValueThen(self.value, fs[1], args)
    IN  IF r.tag = "raise"
        THEN Raised(r.val, <<r.call>>)
        ELSE Returned(Container_init("Maybe", r.val), FALSE, <<r.call>>)

\* Variant: a None container is handed the transform's result all the same
\* (the check is made on the result instead of on the held value).
Maybe_then_checks_result(self, fs, args) ==
    LET r == ValueThen(self.value, fs[1], args)
    IN  IF r.tag = "raise"
        THEN Raised(r.val, <<r.call>>)
        ELSE IF r.val = PyNone
             THEN Returned(Container_init("Maybe", PyNone), FALSE, <<r.call>>)
             ELSE Returned(Container_init("Maybe", r.val), FALSE, <<r.call>>)

\* Maybe.then(func, *args)
Maybe_then(self, fs, args) ==
    IF self.value = PyNone
    THEN Returned(Container_init("Maybe", PyNone), FALSE, <<>>)
    ELSE LET r == ValueThen(self.value, fs[1], args)
         IN  IF r.tag = "raise"
             THEN Raised(r.val, <<r.call>>)
             ELSE Returned(Container_init("Maybe", r.val), FALSE, <<r.call>>)

\* Variant: "self.value or default", which also replaces a held 0.
Maybe_unwrap_falsy(self, default) ==
    IF Truthy(self.value) THEN self.value ELSE default

\* Maybe.unwrap(default=None)
Maybe_unwrap(self, default) ==
    IF self.value = PyNone THEN default ELSE self.value

\* The generator expressions of Array.then and Array.filter, consumed by
\* list() in Array.__init__: the elements from index i on are visited from
\* left to right, out is the list built so far and calls the invocations
\* made so far; the first invocation that raises ends the loop.  keep says
\* whether the loop filters (keeps the element when the result is truthy)
\* or maps (keeps the result).
RECURSIVE ArrayLoop(_, _, _, _, _, _, _)
ArrayLoop(xs, fs, args, keep, i, out, calls) ==
    IF i > Len(xs) THEN [raised |-> PyNone, out |-> out, calls |-> calls]
    ELSE LET r == ValueThen(xs[i], fs[Len(calls) + 1], args)
         IN  IF r.tag = "raise"
             THEN [raised |-> r.val, out |-> out,
                   calls |-> Append(calls, r.call)]
             ELSE ArrayLoop(xs, fs, args, keep, i + 1,
                            IF keep
                            THEN (IF Truthy(r.val) THEN Append(out, xs[i])
                                  ELSE out)
                            ELSE Append(out, r.val),
                            Append(calls, r.call))

Reverse(xs) == [i \in 1..Len(xs) |-> xs[Len(xs) + 1 - i]]

\* Variant: the results are collected in reverse order.
Array_then_reversed(self, fs, args) ==
    LET l == ArrayLoop(self.value.items, fs, args, FALSE, 1, <<>>, <<>>)
    IN  IF l.raised # PyNone THEN Raised(l.raised, l.calls)
        ELSE Returned(Array_init(Reverse(l.out)), FALSE, l.calls)

\* Variant: the elements are visited from the last to the first.
Array_then_backwards(self, fs, args) ==
    LET l == ArrayLoop(Reverse(self.value.items), fs, args, FALSE, 1,
                       <<>>, <<>>)
    IN  IF l.raised # PyNone THEN Raised(l.raised, l.calls)
        ELSE Returned(Array_init(Reverse(l.out)), FALSE, l.calls)

\* Array.then(func, *args)
Array_then(self, fs, args) ==
    LET l == ArrayLoop(self.value.items, fs, args, FALSE, 1, <<>>, <<>>)
    IN  IF l.raised # PyNone THEN Raised(l.raised, l.calls)
        ELSE Returned(Array_init(l.out), FALSE, l.calls)

\* Variant: an element is kept when the predicate's result is not None.
RECURSIVE FilterNotNone(_, _, _, _, _, _)
FilterNotNone(xs, fs, args, i, out, calls) ==
    IF i > Len(xs) THEN [raised |-> PyNone, out |-> out, calls |-> calls]
    ELSE LET r == ValueThen(xs[i], fs[Len(calls) + 1], args)
         IN  IF r.tag = "raise"
             THEN [raised |-> r.val, out |-> out,
                   calls |-> Append(calls, r.call)]
             ELSE FilterNotNone(xs, fs, args, i + 1,
                                IF r.val # PyNone THEN Append(out, xs[i])
                                ELSE out,
                                Append(calls, r.call))

Array_filter_not_none(self, fs, args) ==
    LET l == FilterNotNone(self.value.items, fs, args, 1, <<>>, <<>>)
    IN  IF l.raised # PyNone THEN Raised(l.raised, l.calls)
        ELSE Returned(Array_init(l.out), FALSE, l.calls)

\* Array.filter(func, *args)
Array_filter(self, fs, args) ==
    LET l == ArrayLoop(self.value.items, fs, args, TRUE, 1, <<>>, <<>>)
    IN  IF l.raised # PyNone THEN Raised(l.raised, l.calls)
        ELSE Returned(Array_init(l.out), FALSE, l.calls)

\* The loop of functools.reduce: the elements from index i on are folded
\* into acc from left to right; c[k] is what the k-th invocation of the
\* combiner returns.
RECURSIVE FoldLoop(_, _, _, _, _)
FoldLoop(xs, c, i, acc, calls) ==
    IF i > Len(xs) THEN [raised |-> PyNone, val |-> acc, calls |-> calls]
    ELSE FoldLoop(xs, c, i + 1, c[Len(calls) + 1],
                  Append(calls, <<acc, xs[i]>>))

\* functools.reduce(func, xs) and functools.reduce(func, xs, initial):
\* without an initial value the first element seeds the accumulator, and
\* an empty sequence raises TypeError.
FunctoolsReduce(c, xs, has_initial, initial) ==
    IF has_initial THEN FoldLoop(xs, c, 1, initial, <<>>)
    ELSE IF xs = <<>>
         THEN [raised |-> PyExc("TypeError"), val |-> PyNone, calls |-> <<>>]
         ELSE FoldLoop(xs, c, 2, xs[1], <<>>)

\* Variant: an empty Array without an initial value reduces to None.
Array_reduce_empty_is_none(self, c, initial) ==
    LET r == IF initial = PyNone
             THEN (IF self.value.items = <<>>
                   THEN [raised |-> PyNone, val |-> PyNone, calls |-> <<>>]
                   ELSE FunctoolsReduce(c, self.value.items, FALSE, PyNone))
             ELSE FunctoolsReduce(c, self.value.items, TRUE, initial)
    IN  IF r.raised # PyNone THEN Raised(r.raised, r.calls)
        ELSE Returned(Container_init("Container", r.val), FALSE, r.calls)

\* Array.reduce(func, initial=None)
Array_reduce(self, c, initial) ==
    LET r == IF initial = PyNone
             THEN FunctoolsReduce(c, self.value.items, FALSE, PyNone)
             ELSE FunctoolsReduce(c, self.value.items, TRUE, initial)
    IN  IF r.raised # PyNone THEN Raised(r.raised, r.calls)
        ELSE Returned(Container_init("Container", r.val), FALSE, r.calls)

\* A parameter with default None: the argument given, or None.
OrNone(given) == IF given = <<>> THEN PyNone ELSE given[1]

VARIABLES
    obj,        \* the Container / Maybe / Array the pipeline currently holds
    call,       \* the last then / filter / reduce call: method, receiver,
                \* transform, extra arguments, and what it handed back
    nsteps,     \* number of then / filter / reduce calls made so far
    none_at,    \* value of nsteps when the pipeline first held None, or -1
    unwrap_call \* the last unwrap call on obj, if any

chainVars == <<obj, call, nsteps, none_at, unwrap_call>>

\* ------------------------------------------------ identity and equality
\* class Maybe(Container), class Array(Container), class Result(Container)
IsSubclass(c, d) == c = d \/ d = "Container"

\* type(o) of a container: a Result is the record Result_init builds, the
\* other classes carry their class.
ClassOf(o) == IF "cls" \in DOMAIN o THEN o.cls ELSE "Result"

\* Variant: any container passes the type check.
Container_eq_any_container(self, other) ==
    IF ~IsSubclass(ClassOf(other), "Container") THEN FALSE
    ELSE self.value = other.value

\* Container.__eq__(other), inherited unchanged by Maybe, Array and
\* Result.  isinstance(other, type(self)) holds when other's class is
\* type(self) or a subclass of it; None, integers and lists of these are
\* equal exactly when they are the same value.
Container_eq(self, other) ==
    IF ~IsSubclass(ClassOf(other), ClassOf(self)) THEN FALSE
    ELSE self.value = other.value

\* a == b as Python evaluates it: when the classes differ and b's class is
\* a subclass of a's, b.__eq__(a) is asked first; __eq__ never answers
\* NotImplemented, so the first answer is the result.
PyEq(a, b) ==
    IF ClassOf(a) # ClassOf(b) /\ IsSubclass(ClassOf(b), ClassOf(a))
    THEN Container_eq(b, a)
    ELSE Container_eq(a, b)

\* Every container a constructor call builds within the bounds.
Constructed ==
    {Container_init(cls, v) : cls \in {"Container", "Maybe"}, v \in Val}
        \cup {Array_init(xs) : xs \in Arrays}
        \cup {Result_init(v, e) : v \in Val, e \in {PyNone} \cup Errors}

\* Variant: then stores its result on the receiver as well.
SelfAfter_then_in_place(self, o, r) ==
    IF o = "then" /\ r.raised = PyNone /\ ~r.is_self
    THEN [self EXCEPT !.value = r.ret.value]
    ELSE self

\* The attributes of the receiver once method o has handed back r: then,
\* filter, reduce, recover and unwrap assign to no attribute of self and
\* call no method of self.value; the except branches assign to the
\* attributes of the new error_monad only.
SelfAfter(self, o, r) ==
    self

\* The heap holds at most MaxObjs containers.
MaxObjs == 3

\* --------------------------------------------------------- wrappers.py
\* retry is given at most MaxRetries retries.
MaxRetries == 3

\* last_exception before the loop has assigned it.
Unbound == [t |-> "unbound"]

\* Variant: the loop runs once more (range(retries, -1, -1)).
Retry_range_one_more(retries) ==
    IF retries >= 0 THEN retries + 1 ELSE 0

\* Number of iterations of "for attempt in range(retries, 0, -1)".
Retry_range(retries) ==
    IF retries > 0 THEN retries ELSE 0

\* Variant: a listed class also admits its subclasses.
Retry_gives_up_isinstance(exception, exceptions) ==
    exceptions # {} /\ ~\E cls \in exceptions : IsInstance(exception, cls)

\* retry, line 136: exceptions and type(exception) not in exceptions
Retry_gives_up(exception, exceptions) ==
    exceptions # {} /\ TypeOf(exception) \notin exceptions

\* Variant: every failure is coerced, whatever the classes listed.
Coercing_func_catches_all(value, exceptions, f) ==
    IF f.tag = "return" THEN [tag |-> "return", val |-> f.val]
    ELSE [tag |-> "return", val |-> value]

\* coerce_into(value, *exceptions)(func)(): what the call hands back when
\* the invocation of func does f.
Coercing_func(value, exceptions, f) ==
    IF f.tag = "return" THEN [tag |-> "return", val |-> f.val]
    ELSE IF exceptions = {} \/ TypeOf(f.val) \in exceptions
         THEN [tag |-> "return", val |-> value]
         ELSE [tag |-> "raise", val |-> f.val]

\* The decorated functions: retry(retries, *exceptions)(func) and
\* coerce_into(value, *exceptions)(func).
RetryWrapped ==
    {[deco |-> "retry", retries |-> n, exceptions |-> ex] :
        n \in 0..MaxRetries, ex \in SUBSET ExceptionTypes}
CoerceWrapped ==
    {[deco |-> "coerce_into", value |-> v, exceptions |-> ex] :
        v \in Val, ex \in SUBSET ExceptionTypes}

VARIABLES
    target,     \* the base Container whose then is called with any func form
    passed,     \* that then call: func, extra arguments, what it handed back
    heap,       \* the containers that exist, in order of creation; a
                \* container's index is its identity
    hcall,      \* the last method call or comparison made on heap objects
    wrapped,    \* the decorated function under call
    pc,         \* "ready", "loop" (inside retry's for loop) or "done"
    left,       \* iterations the for loop has still to make
    log,        \* what each invocation of the wrapped function did, in order
    last_exception,  \* retry's local variable of that name
    outcome     \* what the call of the decorated function handed back

argVars == <<target, passed>>
heapVars == <<heap, hcall>>
wrapVars == <<wrapped, pc, left, log, last_exception, outcome>>
otherVars == <<argVars, heapVars, wrapVars>>

ArgIdle == target = Absent /\ passed = Absent
HeapIdle == heap = <<>> /\ hcall = Absent
WrapIdle ==
    /\ wrapped = Absent /\ pc = "ready" /\ left = 0 /\ log = <<>>
    /\ last_exception = Unbound /\ outcome = Absent
OtherIdle == ArgIdle /\ HeapIdle /\ WrapIdle

\* ----------------------------------------------------- string rendering
Digits == <<"0", "1", "2", "3", "4", "5", "6", "7", "8", "9">>

\* str(i) of a non-negative integer: its decimal digits.
RECURSIVE IntStr(_)
IntStr(i) ==
    IF i < 10 THEN Digits[i + 1]
    ELSE IntStr(i \div 10) \o Digits[(i % 10) + 1]

\* str(e) of an exception object: the message it was raised with, which
\* is "division by zero" for the ZeroDivisionError of x / 0 and empty for
\* an exception raised without arguments (assert False).
Description(e) ==
    IF TypeOf(e) = "ZeroDivisionError" THEN "division by zero" ELSE ""

\* str(x), as the f-strings and str(i) of the __str__ methods compute it.
PyStr(x) ==
    CASE x.t = "None" -> "None"
      [] x.t = "int" -> IntStr(x.v)
      [] x.t = "exc" -> Description(x)

\* sep.join(strs)
RECURSIVE Join(_, _)
Join(strs, sep) ==
    IF strs = <<>> THEN ""
    ELSE IF Len(strs) = 1 THEN strs[1]
    ELSE strs[1] \o sep \o Join(Tail(strs), sep)

\* Container.__str__ (inherited by Maybe)
Container_str(self) ==
    ClassOf(self) \o "(" \o PyStr(self.value) \o ")"

\* Array.__str__
Array_str(self) ==
    ClassOf(self) \o "("
        \o Join([i \in 1..Len(self.value.items) |->
                    PyStr(self.value.items[i])], ", ")
        \o ")"

\* Variant: the held value is rendered whatever the stored error.
Result_str_shows_value(self) ==
    ClassOf(self) \o "(" \o PyStr(self.value) \o ")"

\* Result.__str__: f"{self.__class__.__name__}({self.exception or self.value})"
Result_str(self) ==
    ClassOf(self) \o "("
        \o PyStr(IF Truthy(self.exception) THEN self.exception
                 ELSE self.value)
        \o ")"

\* ------------------------------------------------------- mutation_free
\* A reference to the mutable object (a list) with identity i.
Ref(i) == [t |-> "ref", id |-> i]
IsRef(x) == x.t = "ref"

\* copy.deepcopy(v) in the memory m (the list objects that exist, each at
\* the index that is its identity): an immutable value is itself; a list
\* is copied into a new object whose items are deep copies of its items.
\* The result is the memory with the copies added and the value of the
\* copy.  CopyItems copies the items from index k on.
RECURSIVE DeepCopy(_, _)
RECURSIVE CopyItems(_, _, _, _)
CopyItems(m, items, k, out) ==
    IF k > Len(items) THEN [mem |-> m, items |-> out]
    ELSE LET c == DeepCopy(m, items[k])
         IN  CopyItems(c.mem, items, k + 1, Append(out, c.val))

DeepCopy(m, v) ==
    IF ~IsRef(v) THEN [mem |-> m, val |-> v]
    ELSE LET c == CopyItems(m, m[v.id], 1, <<>>)
         IN  [mem |-> Append(c.mem, c.items), val |-> Ref(Len(c.mem) + 1)]

\* Variant: copy.copy, which shares the items of a list with the original.
CopyArg_shallow(m, v) ==
    IF ~IsRef(v) THEN [mem |-> m, val |-> v]
    ELSE [mem |-> Append(m, m[v.id]), val |-> Ref(Len(m) + 1)]

\* deepcopy(i) / deepcopy(v) of one argument, lines 54-55.
CopyArg(m, v) ==
    DeepCopy(m, v)

\* copy_args = [deepcopy(i) for i in args], from index k on.
RECURSIVE CopyArgs(_, _, _, _)
CopyArgs(m, args, k, out) ==
    IF k > Len(args) THEN [mem |-> m, args |-> out]
    ELSE LET c == CopyArg(m, args[k])
         IN  CopyArgs(c.mem, args, k + 1, Append(out, c.val))

\* copy_kwargs = {deepcopy(k): deepcopy(v) for k, v in kwargs.items()};
\* the keys are strings.  A call passes at most the keyword x.
CopyKwargs(m, kwargs) ==
    IF kwargs["x"] = Absent THEN [mem |-> m, kwargs |-> kwargs]
    ELSE LET c == CopyArg(m, kwargs["x"])
         IN  [mem |-> c.mem, kwargs |-> Kwarg("x", c.val)]

\* What the wrapped function does to its arguments: nothing (arg = 0), or
\* an append to the list it received as positional argument arg (1, 2) or
\* as keyword x (arg = 3), or, when nested, to the first list held by
\* that list.
Mutations ==
    {[arg |-> a, nested |-> n] : a \in 0..3, n \in BOOLEAN}

\* The first item of the list at id that is itself a list, or 0.
FirstNested(m, id) ==
    IF \E k \in 1..Len(m[id]) : IsRef(m[id][k])
    THEN m[id][CHOOSE k \in 1..Len(m[id]) :
                  /\ IsRef(m[id][k])
                  /\ \A j \in 1..(k - 1) : ~IsRef(m[id][j])].id
    ELSE 0

\* The identity of the list the mutation mut appends to, given the
\* arguments the function received; 0 when mut names no list.
MutationTarget(m, args, kwargs, mut) ==
    LET got == IF mut.arg \in 1..Len(args) THEN args[mut.arg]
               ELSE IF mut.arg = 3 THEN kwargs["x"]
               ELSE Absent
    IN  IF got = Absent \/ ~IsRef(got) THEN 0
        ELSE IF mut.nested THEN FirstNested(m, got.id)
        ELSE got.id

\* thing.append(3) on the list with identity id.
ListAppend(m, id) ==
    IF id = 0 THEN m ELSE [m EXCEPT ![id] = Append(@, PyInt(1))]

\* mutation_free(func)(*args, **kwargs) in memory m, where func makes the
\* mutation mut on what it receives and then does f (returns or raises).
Mutation_free(m, args, kwargs, mut, f) ==
    LET ck == CopyKwargs(m, kwargs)
        ca == CopyArgs(ck.mem, args, 1, <<>>)
        id == MutationTarget(ca.mem, ca.args, ck.kwargs, mut)
    IN  [mem |-> ListAppend(ca.mem, id), got_args |-> ca.args,
         got_kwargs |-> ck.kwargs, mutated |-> id, outcome |-> f]

\* The caller's objects: list 1 holds immutable values, list 2 holds list
\* 1 among its items.
CallerMems ==
    {<<l, <<PyInt(0), Ref(1)>> >> : l \in {<<>>, <<PyNone>>, <<PyInt(0)>>}}
\* Values a caller passes as arguments.
ArgVals == Val \cup {Ref(1), Ref(2)}
CallerArgs == {<<>>} \cup {<<a>> : a \in ArgVals}
                \cup {<<a, b>> : a \in ArgVals, b \in ArgVals}
CallerKwargs == {NoKwargs} \cup {Kwarg("x", a) : a \in ArgVals}

\* ------------------------------------------------ legacy monads module
\* Monad.__init__(value); cls is the class instantiated (Monad or Maybe).
Monad_init(cls, v) ==
    [cls |-> cls, value |-> v]

\* Functions handed to bind / pipe, by name, and what each returns.
PipeFuncs == {"succ", "zero", "none", "same"}
Apply(f, v) ==
    CASE f = "succ" -> (IF v.t = "int" THEN PyInt((v.v + 1) % (MaxVal + 1))
                        ELSE PyInt(0))
      [] f = "zero" -> PyInt(0)
      [] f = "none" -> PyNone
      [] f = "same" -> v

\* Monad.bind(func) and Maybe.bind(func)
Monad_bind(self, f) ==
    IF self.cls = "Maybe"
    THEN IF self.value = PyNone THEN Monad_init("Maybe", PyNone)
         ELSE Monad_init("Maybe", Apply(f, self.value))
    ELSE Monad_init("Monad", Apply(f, self.value))

\* The loop of Monad.pipe, from the k-th function on:
\*   for func in funcs: result = self.bind(func)
RECURSIVE PipeLoop(_, _, _, _)
PipeLoop(self, funcs, k, res) ==
    IF k > Len(funcs) THEN res
    ELSE PipeLoop(self, funcs, k + 1, Monad_bind(self, funcs[k]))

\* Monad.pipe(*funcs): the container returned, and whether it is the
\* receiver itself.
Monad_pipe(self, funcs) ==
    [ret |-> PipeLoop(self, funcs, 1, self), is_self |-> funcs = <<>>]

\* Sequences of at most MaxSteps functions.
FuncLists == UNION {[1..n -> PipeFuncs] : n \in 0..MaxSteps}

VARIABLES
    mem,        \* the list objects that exist; an object's index is its
                \* identity
    mcall,      \* the call of the mutation_free function: what the caller
                \* passed, what the function received and did
    monad,      \* the legacy Monad / Maybe the pipeline currently holds
    pcall       \* the last bind / pipe call on it

mutVars == <<mem, mcall>>
pipeVars == <<monad, pcall>>
restVars == <<mutVars, pipeVars>>

MutIdle == mem = <<>> /\ mcall = Absent
PipeIdle == monad = Absent /\ pcall = Absent
RestIdle == MutIdle /\ PipeIdle

vars == <<resultVars, chainVars, otherVars, restVars>>

\* The Container / Maybe / Array part is not in use.
ChainIdle ==
    /\ obj = Absent
    /\ call = Absent
    /\ nsteps = 0
    /\ none_at = -1
    /\ unwrap_call = Absent

\* Result(value) or Result(value, exception), called by user code.
Init ==
    \E v \in Val, e \in {PyNone} \cup Errors :
        /\ container = Result_init(v, e)
        /\ receiver = Absent
        /\ op = "init"
        /\ func = Absent
        /\ result = Absent
        /\ steps = 0
        /\ streak = 0
        /\ lastOk = IF e = PyNone THEN v ELSE Absent
        /\ lastRaised = Absent
        /\ lastReturned = Absent
        /\ chainOk = (e = PyNone)
        /\ unwrapped = NotUnwrapped
        /\ startedOk = (e = PyNone)
        /\ lastCall = "none"
        /\ ChainIdle
        /\ OtherIdle
        /\ RestIdle

\* The pipeline's bookkeeping after a then / recover call named o with
\* transform behaviour f handed back r.
Advance(o, f, r) ==
    /\ receiver' = container
    /\ op' = o
    /\ func' = f
    /\ result' = r
    /\ steps' = steps + 1
    /\ container' = IF r.raised = PyNone THEN r.ret ELSE container
    /\ streak' = IF op # "init" /\ CallClass(o, f, r) = CallClass(op, func, result)
                 THEN streak + 1 ELSE 1
    /\ lastOk' = IF r.raised = PyNone /\ IsOk(r.ret) THEN r.ret.value ELSE lastOk
    /\ lastRaised' = IF r.calls # <<>> /\ f.tag = "raise" THEN f.val ELSE lastRaised
    /\ lastReturned' = IF r.calls # <<>> /\ f.tag = "return" THEN f.val ELSE lastReturned
    /\ chainOk' = (chainOk /\ o = "then" /\ r.calls # <<>> /\ f.tag = "return")
    /\ unwrapped' = NotUnwrapped
    /\ lastCall' = IF r.calls # <<>> THEN f.tag ELSE lastCall
    /\ UNCHANGED <<startedOk, chainVars, otherVars, restVars>>

\* container.then(func)
Then(f) ==
    /\ steps < MaxSteps
    /\ Advance("then", f, Result_then(container, f))

\* container.recover(func)
Recover(f) ==
    /\ steps < MaxSteps
    /\ Advance("recover", f, Result_recover(container, f))

\* container.unwrap(default, *exceptions); the container is left as it is.
Unwrap(default, exceptions) ==
    /\ unwrapped' = [called |-> TRUE, default |-> default,
                     exceptions |-> exceptions,
                     outcome |-> Result_unwrap(container, default, exceptions)]
    /\ UNCHANGED <<container, receiver, op, func, result, steps, streak,
                   lastOk, lastRaised, lastReturned, chainOk, startedOk,
                   lastCall, chainVars, otherVars, restVars>>

Next ==
    \/ \E f \in Behaviours : Then(f)
    \/ \E f \in Behaviours : Recover(f)
    \/ \E d \in Val \cup {DEFAULT}, ex \in SUBSET ExceptionTypes : Unwrap(d, ex)

Spec == Init /\ [][Next]_vars

\* ------------------------------- the Container / Maybe / Array pipeline
\* The Result part is not in use.
ResultIdle ==
    /\ container = Absent /\ receiver = Absent /\ op = "init"
    /\ func = Absent /\ result = Absent /\ steps = 0 /\ streak = 0
    /\ lastOk = Absent /\ lastRaised = Absent /\ lastReturned = Absent
    /\ chainOk = FALSE /\ unwrapped = NotUnwrapped /\ startedOk = FALSE
    /\ lastCall = "none"

HoldsNone(c) == c.cls # "Array" /\ c.value = PyNone

\* Container(v), Maybe(v) or Array(x1, ..., xn), called by user code.
ChainInit ==
    /\ obj \in {Container_init(cls, v) : cls \in {"Container", "Maybe"}, v \in Val}
                \cup {Array_init(xs) : xs \in Arrays}
    /\ call = [op |-> "init"]
    /\ nsteps = 0
    /\ none_at = IF HoldsNone(obj) THEN 0 ELSE -1
    /\ unwrap_call = NotUnwrapped
    /\ ResultIdle
    /\ OtherIdle
    /\ RestIdle

\* The pipeline's bookkeeping after method o, given transform fs and the
\* arguments args, handed back r: the pipeline goes on with the container
\* returned, if one was returned.
ChainAdvance(o, fs, args, r) ==
    /\ call' = [op |-> o, receiver |-> obj, func |-> fs, args |-> args,
                res |-> r]
    /\ obj' = IF r.raised = PyNone THEN r.ret ELSE obj
    /\ nsteps' = nsteps + 1
    /\ none_at' = IF none_at = -1 /\ HoldsNone(obj') THEN nsteps + 1
                  ELSE none_at
    /\ unwrap_call' = NotUnwrapped
    /\ UNCHANGED <<resultVars, otherVars, restVars>>

\* container.then(func, *args) on a base Container.  A pipeline is a run
\* of then calls; the Container that Array.reduce returns is not chained
\* further here.
ContainerThen(fs, args) ==
    /\ obj.cls = "Container"
    /\ call.op \in {"init", "then"}
    /\ nsteps < MaxSteps
    /\ ChainAdvance("then", fs, args, Container_then(obj, fs, args))

\* maybe.then(func, *args)
MaybeThen(fs, args) ==
    /\ obj.cls = "Maybe"
    /\ nsteps < MaxSteps
    /\ ChainAdvance("then", fs, args, Maybe_then(obj, fs, args))

\* array.then(func, *args), on a newly built Array
ArrayThen(fs, args) ==
    /\ obj.cls = "Array"
    /\ call.op = "init"
    /\ ChainAdvance("then", fs, args, Array_then(obj, fs, args))

\* array.filter(func, *args), on a newly built Array
ArrayFilter(fs, args) ==
    /\ obj.cls = "Array"
    /\ call.op = "init"
    /\ ChainAdvance("filter", fs, args, Array_filter(obj, fs, args))

\* array.reduce(func) when given = <<>>, array.reduce(func, a) when
\* given = <<a>>, on a newly built Array
ArrayReduce(c, given) ==
    /\ obj.cls = "Array"
    /\ call.op = "init"
    /\ ChainAdvance("reduce", c, given, Array_reduce(obj, c, OrNone(given)))

\* maybe.unwrap() when given = <<>>, maybe.unwrap(d) when given = <<d>>
MaybeUnwrap(given) ==
    /\ obj.cls = "Maybe"
    /\ unwrap_call' = [called |-> TRUE, args |-> given,
                       outcome |-> Maybe_unwrap(obj, OrNone(given))]
    /\ UNCHANGED <<obj, call, nsteps, none_at, resultVars, otherVars, restVars>>

\* container.unwrap() on a base Container or an Array
ContainerUnwrap ==
    /\ obj.cls \in {"Container", "Array"}
    /\ unwrap_call' = [called |-> TRUE, args |-> <<>>,
                       outcome |-> Container_unwrap(obj)]
    /\ UNCHANGED <<obj, call, nsteps, none_at, resultVars, otherVars, restVars>>

OptionalArg == {<<>>} \cup {<<a>> : a \in Val}

ChainNext ==
    \/ \E fs \in ChainFuncs(1), args \in ExtraArgs : ContainerThen(fs, args)
    \/ \E fs \in ChainFuncs(1), args \in ExtraArgs : MaybeThen(fs, args)
    \/ \E fs \in ChainFuncs(MaxLen), args \in ExtraArgs : ArrayThen(fs, args)
    \/ \E fs \in ChainFuncs(MaxLen), args \in ExtraArgs : ArrayFilter(fs, args)
    \/ \E c \in Combiners, given \in OptionalArg : ArrayReduce(c, given)
    \/ \E given \in OptionalArg : MaybeUnwrap(given)
    \/ ContainerUnwrap

SpecChain == ChainInit /\ [][ChainNext]_vars

\* -------------------------------------- then with every form of func
\* Container(v), called by user code.
ArgInit ==
    /\ target \in {Container_init("Container", v) : v \in Val}
    /\ passed = [op |-> "init"]
    /\ HeapIdle /\ WrapIdle /\ ResultIdle /\ ChainIdle /\ RestIdle

\* target.then(func, *args, **kwargs) on the newly built Container; target
\* becomes the container returned, if one was returned.
ThenWith(fn, args, kwargs) ==
    LET r == Container_then_with(target, fn, args, kwargs)
    IN  /\ passed.op = "init"
        /\ passed' = [op |-> "then", receiver |-> target, func |-> fn,
                      args |-> args, kwargs |-> kwargs, res |-> r]
        /\ target' = IF r.raised = PyNone THEN r.ret ELSE target
        /\ UNCHANGED <<resultVars, chainVars, heapVars, wrapVars, restVars>>

ArgNext ==
    \E fn \in Funcs, args \in ExtraArgs, kwargs \in ExtraKwargs :
        ThenWith(fn, args, kwargs)

SpecArgs == ArgInit /\ [][ArgNext]_vars

\* ------------------------------------------- comparing two containers
\* Two containers built by user code.
EqInit ==
    /\ heap \in {<<a, b>> : a \in Constructed, b \in Constructed}
    /\ hcall = [op |-> "init"]
    /\ ArgIdle /\ WrapIdle /\ ResultIdle /\ ChainIdle /\ RestIdle

\* heap[i] == heap[j]
Equals(i, j) ==
    /\ hcall' = [op |-> "eq", self |-> i, other |-> j,
                 res |-> PyEq(heap[i], heap[j])]
    /\ UNCHANGED <<heap, resultVars, chainVars, argVars, wrapVars, restVars>>

EqNext ==
    \E i \in 1..Len(heap), j \in 1..Len(heap) : Equals(i, j)

SpecEq == EqInit /\ [][EqNext]_vars

\* ------------------------------------- method calls on existing objects
\* One container built by user code.
HeapInit ==
    /\ heap \in {<<a>> : a \in Constructed}
    /\ hcall = [op |-> "init"]
    /\ ArgIdle /\ WrapIdle /\ ResultIdle /\ ChainIdle /\ RestIdle

\* Method o called on heap[i] handed back r: the receiver is left with the
\* attributes the method left it, and a container the method built is a
\* new object.  ret is the identity of the container returned (0: none).
HeapCall(o, i, r) ==
    /\ Len(heap) < MaxObjs \/ r.raised # PyNone \/ r.is_self
    /\ heap' = LET h == [heap EXCEPT ![i] = SelfAfter(heap[i], o, r)]
               IN  IF r.raised = PyNone /\ ~r.is_self
                   THEN Append(h, r.ret) ELSE h
    /\ hcall' = [op |-> o, self |-> i, before |-> heap[i],
                 ret |-> IF r.raised # PyNone THEN 0
                         ELSE IF r.is_self THEN i ELSE Len(heap) + 1,
                 raised |-> r.raised]
    /\ UNCHANGED <<resultVars, chainVars, argVars, wrapVars, restVars>>

\* An unwrap call on heap[i] that handed back the value or let the
\* exception e propagate.
HeapUnwrapCall(i, e) ==
    /\ heap' = [heap EXCEPT ![i] = SelfAfter(heap[i], "unwrap", Absent)]
    /\ hcall' = [op |-> "unwrap", self |-> i, before |-> heap[i],
                 ret |-> 0, raised |-> e]
    /\ UNCHANGED <<resultVars, chainVars, argVars, wrapVars, restVars>>

HeapResultThen(i, f) ==
    /\ ClassOf(heap[i]) = "Result"
    /\ HeapCall("then", i, Result_then(heap[i], f))

HeapResultRecover(i, f) ==
    /\ ClassOf(heap[i]) = "Result"
    /\ HeapCall("recover", i, Result_recover(heap[i], f))

HeapResultUnwrap(i, default, exceptions) ==
    /\ ClassOf(heap[i]) = "Result"
    /\ LET u == Result_unwrap(heap[i], default, exceptions)
       IN  HeapUnwrapCall(i, IF u.tag = "raise" THEN u.val ELSE PyNone)

HeapContainerThen(i, fs, args) ==
    /\ ClassOf(heap[i]) = "Container"
    /\ HeapCall("then", i, Container_then(heap[i], fs, args))

HeapMaybeThen(i, fs, args) ==
    /\ ClassOf(heap[i]) = "Maybe"
    /\ HeapCall("then", i, Maybe_then(heap[i], fs, args))

\* Array methods are called on a newly built Array.
HeapArrayThen(fs, args) ==
    /\ Len(heap) = 1 /\ ClassOf(heap[1]) = "Array"
    /\ HeapCall("then", 1, Array_then(heap[1], fs, args))

HeapArrayFilter(fs, args) ==
    /\ Len(heap) = 1 /\ ClassOf(heap[1]) = "Array"
    /\ HeapCall("filter", 1, Array_filter(heap[1], fs, args))

HeapArrayReduce(c, given) ==
    /\ Len(heap) = 1 /\ ClassOf(heap[1]) = "Array"
    /\ HeapCall("reduce", 1, Array_reduce(heap[1], c, OrNone(given)))

\* unwrap of Container, Maybe and Array returns and raises nothing.
HeapUnwrap(i) ==
    /\ ClassOf(heap[i]) # "Result"
    /\ HeapUnwrapCall(i, PyNone)

HeapNext ==
    \/ \E i \in 1..Len(heap), f \in ChainBehaviours : HeapResultThen(i, f)
    \/ \E i \in 1..Len(heap), f \in ChainBehaviours :
          HeapResultRecover(i, f)
    \/ \E i \in 1..Len(heap), d \in {DEFAULT, PyInt(0)},
          ex \in {{}, {"ArithmeticError"}} : HeapResultUnwrap(i, d, ex)
    \/ \E i \in 1..Len(heap), fs \in ChainFuncs(1) :
          HeapContainerThen(i, fs, <<>>)
    \/ \E i \in 1..Len(heap), fs \in ChainFuncs(1) :
          HeapMaybeThen(i, fs, <<>>)
    \/ \E fs \in ChainFuncs(MaxLen) : HeapArrayThen(fs, <<>>)
    \/ \E fs \in ChainFuncs(MaxLen) : HeapArrayFilter(fs, <<>>)
    \/ \E c \in Combiners, given \in OptionalArg : HeapArrayReduce(c, given)
    \/ \E i \in 1..Len(heap) : HeapUnwrap(i)

SpecHeap == HeapInit /\ [][HeapNext]_vars

\* ------------------------------------------ calling a decorated function
\* func decorated with retry(...) or coerce_into(...); no call made yet.
WrapInit ==
    /\ wrapped \in RetryWrapped \cup CoerceWrapped
    /\ pc = "ready" /\ left = 0 /\ log = <<>>
    /\ last_exception = Unbound /\ outcome = Absent
    /\ ArgIdle /\ HeapIdle /\ ResultIdle /\ ChainIdle /\ RestIdle

\* The call of retry's wrapped_func enters the for loop.
RetryCall ==
    /\ wrapped.deco = "retry" /\ pc = "ready"
    /\ pc' = "loop"
    /\ left' = Retry_range(wrapped.retries)
    /\ UNCHANGED <<wrapped, log, last_exception, outcome, resultVars,
                   chainVars, argVars, heapVars, restVars>>

\* One iteration of the loop: func is invoked and does f.
RetryAttempt(f) ==
    /\ pc = "loop" /\ left > 0
    /\ log' = Append(log, f)
    /\ IF f.tag = "return" \/ Retry_gives_up(f.val, wrapped.exceptions)
       THEN /\ outcome' = f
            /\ pc' = "done"
            /\ UNCHANGED <<left, last_exception, restVars>>
       ELSE /\ last_exception' = f.val
            /\ left' = left - 1
            /\ UNCHANGED <<pc, outcome, restVars>>
    /\ UNCHANGED <<wrapped, resultVars, chainVars, argVars, heapVars, restVars>>

\* The loop is over: raise last_exception, which is unbound when the loop
\* made no iteration.
RetryExhausted ==
    /\ pc = "loop" /\ left = 0
    /\ outcome' = [tag |-> "raise",
                   val |-> IF last_exception = Unbound
                           THEN PyExc("UnboundLocalError")
                           ELSE last_exception]
    /\ pc' = "done"
    /\ UNCHANGED <<wrapped, left, log, last_exception, resultVars,
                   chainVars, argVars, heapVars, restVars>>

\* The call of coerce_into's coercing_func; func is invoked and does f.
CoerceCall(f) ==
    /\ wrapped.deco = "coerce_into" /\ pc = "ready"
    /\ log' = <<f>>
    /\ outcome' = Coercing_func(wrapped.value, wrapped.exceptions, f)
    /\ pc' = "done"
    /\ UNCHANGED <<wrapped, left, last_exception, resultVars, chainVars,
                   argVars, heapVars, restVars>>

WrapNext ==
    \/ RetryCall
    \/ \E f \in Behaviours : RetryAttempt(f)
    \/ RetryExhausted
    \/ \E f \in Behaviours : CoerceCall(f)

SpecWrap == WrapInit /\ [][WrapNext]_vars

\* ------------------------------------------------- rendering containers
\* str(heap[i])
HeapStr(i) ==
    /\ hcall' = [op |-> "str", self |-> i, before |-> heap[i],
                 res |-> CASE ClassOf(heap[i]) = "Result" -> Result_str(heap[i])
                           [] ClassOf(heap[i]) = "Array" -> Array_str(heap[i])
                           [] OTHER -> Container_str(heap[i])]
    /\ UNCHANGED <<heap, resultVars, chainVars, argVars, wrapVars, restVars>>

\* A container is built, a Result is taken through then calls, and any
\* container that exists is rendered.
StrNext ==
    \/ \E i \in 1..Len(heap), f \in Behaviours : HeapResultThen(i, f)
    \/ \E i \in 1..Len(heap) : HeapStr(i)

SpecStr == HeapInit /\ [][StrNext]_vars

\* ------------------------------ calling a mutation_free function
\* The caller holds its objects and has the arguments ready.
MutInit ==
    /\ mem \in CallerMems
    /\ mcall \in {[op |-> "init", args |-> a, kwargs |-> k] :
                     a \in CallerArgs, k \in CallerKwargs}
    /\ PipeIdle /\ ArgIdle /\ HeapIdle /\ WrapIdle /\ ResultIdle /\ ChainIdle

\* wrapped_func(*args, **kwargs) of mutation_free(func); func makes the
\* mutation mut on what it receives and then does f.
MutationFreeCall(mut, f) ==
    LET r == Mutation_free(mem, mcall.args, mcall.kwargs, mut, f)
    IN  /\ mcall.op = "init"
        /\ mem' = r.mem
        /\ mcall' = [op |-> "call", args |-> mcall.args,
                     kwargs |-> mcall.kwargs, before |-> mem, mut |-> mut,
                     func |-> f, got_args |-> r.got_args,
                     got_kwargs |-> r.got_kwargs, mutated |-> r.mutated,
                     outcome |-> r.outcome]
        /\ UNCHANGED <<pipeVars, resultVars, chainVars, argVars, heapVars,
                       wrapVars>>

MutNext ==
    \E mut \in Mutations, f \in ChainBehaviours : MutationFreeCall(mut, f)

SpecMut == MutInit /\ [][MutNext]_vars

\* ------------------------------------------ legacy Monad pipelines
\* Monad(v) or Maybe(v), called by user code.
PipeInit ==
    /\ monad \in {Monad_init(cls, v) : cls \in {"Monad", "Maybe"}, v \in Val}
    /\ pcall = [op |-> "init"]
    /\ MutIdle /\ ArgIdle /\ HeapIdle /\ WrapIdle /\ ResultIdle /\ ChainIdle

\* monad.bind(func); the pipeline goes on with the container returned.
Bind(f) ==
    /\ pcall' = [op |-> "bind", receiver |-> monad, funcs |-> <<f>>,
                 res |-> [ret |-> Monad_bind(monad, f), is_self |-> FALSE]]
    /\ monad' = Monad_bind(monad, f)
    /\ UNCHANGED <<mutVars, resultVars, chainVars, argVars, heapVars,
                   wrapVars>>

\* monad.pipe(*funcs); the pipeline goes on with the container returned.
Pipe(funcs) ==
    /\ pcall' = [op |-> "pipe", receiver |-> monad, funcs |-> funcs,
                 res |-> Monad_pipe(monad, funcs)]
    /\ monad' = Monad_pipe(monad, funcs).ret
    /\ UNCHANGED <<mutVars, resultVars, chainVars, argVars, heapVars,
                   wrapVars>>

PipeNext ==
    \/ \E f \in PipeFuncs : Bind(f)
    \/ \E funcs \in FuncLists : Pipe(funcs)

SpecPipe == PipeInit /\ [][PipeNext]_vars

TypeOK ==
    /\ container \in [value : Val, exception : {PyNone} \cup Errors,
                      value_to_recover : Val]
    /\ op \in {"init", "then", "recover"}
    /\ steps \in 0..MaxSteps
    /\ streak \in 0..MaxSteps

\* ------------------------------------------------------------ claims
Invoked == result.calls # <<>>

\* C1: then on an Ok container holding v with a transform that raises e
\* does not let e reach the caller: it returns an Err container whose
\* stored error is e and whose recovery checkpoint is v (the transform
\* having been invoked once, with v).
C1_ThenCapturesFailure ==
    (op = "then" /\ IsOk(receiver) /\ func.tag = "raise") =>
        /\ result.raised = PyNone
        /\ result.calls = <<receiver.value>>
        /\ InErr(container)
        /\ container.exception = func.val
        /\ container.value_to_recover = receiver.value

C1_Witness ==
    /\ op = "then" /\ IsOk(receiver) /\ func.tag = "raise"
    /\ receiver.value # PyNone
    /\ container.exception = func.val
    /\ container.value_to_recover = receiver.value

\* C2: then on an Err container (error e, checkpoint r) never invokes the
\* transform, whatever the transform would do, and yields a container
\* with the same error e and the same checkpoint r; so it is after any
\* number of consecutive then calls.
C2_ThenSkipsOnErr ==
    (op = "then" /\ InErr(receiver)) =>
        /\ result.calls = <<>>
        /\ result.raised = PyNone
        /\ container.exception = receiver.exception
        /\ container.value_to_recover = receiver.value_to_recover

C2_Witness ==
    /\ op = "then" /\ InErr(receiver) /\ streak >= 2
    /\ func.tag = "return"
    /\ container.exception = receiver.exception
    /\ container.value_to_recover # PyNone

\* C3: recover on an Err container (error e, checkpoint r) with a transform
\* that raises e2 yields an Err container storing e2 with the same
\* checkpoint r; and a recover that follows a failed recover invokes its
\* transform with the same argument r as the failed one did.
C3_FailedRecoverState ==
    (op = "recover" /\ InErr(receiver) /\ func.tag = "raise") =>
        /\ result.raised = PyNone
        /\ result.calls = <<receiver.value_to_recover>>
        /\ InErr(container)
        /\ container.exception = func.val
        /\ container.value_to_recover = receiver.value_to_recover

C3_FailedRecoverStep ==
    (/\ op = "recover" /\ Invoked /\ func.tag = "raise"
     /\ op' = "recover" /\ steps' = steps + 1)
        => result'.calls = result.calls

C3_FailedRecoverKeepsCheckpoint ==
    [](C3_FailedRecoverState) /\ [][C3_FailedRecoverStep]_vars

C3_Witness ==
    /\ op = "recover" /\ InErr(receiver) /\ func.tag = "raise"
    /\ streak >= 2
    /\ container.exception # receiver.exception
    /\ container.value_to_recover # PyNone
    /\ result.calls = <<container.value_to_recover>>

\* C4: recover on an Err container with checkpoint r and a transform that
\* succeeds on r invokes the transform exactly once, with r, and yields an
\* Ok container holding the transform's result, with no stored error.
C4_RecoverSucceeds ==
    (op = "recover" /\ InErr(receiver) /\ func.tag = "return") =>
        /\ result.raised = PyNone
        /\ result.calls = <<receiver.value_to_recover>>
        /\ container.exception = PyNone
        /\ container.value = func.val

C4_Witness ==
    /\ op = "recover" /\ InErr(receiver) /\ func.tag = "return"
    /\ receiver.value_to_recover # PyNone
    /\ func.val # receiver.value_to_recover
    /\ container = Result_init(func.val, PyNone)

\* C5: in a pipeline of then / recover calls that has held an Ok
\* container, whenever the current container is in the Err state its
\* recovery checkpoint is the value of the most recent Ok container.
C5_CheckpointIsLastOk ==
    (lastOk # Absent /\ InErr(container)) =>
        container.value_to_recover = lastOk

C5_Witness ==
    /\ InErr(container) /\ steps >= 3
    /\ op = "recover" /\ Invoked /\ func.tag = "raise"
    /\ lastReturned # Absent /\ lastOk = lastReturned /\ lastOk # PyNone
    /\ container.value_to_recover = lastOk

\* C6: then on an Ok container holding v with a transform that returns
\* yields an Ok container holding what the transform returned for v; in a
\* chain of succeeding then calls each transform receives what the one
\* before it returned (the first receives v), and unwrapping the chain
\* returns what the last transform returned.
C6_ThenState ==
    /\ (op = "then" /\ IsOk(receiver) /\ func.tag = "return") =>
        /\ result.raised = PyNone
        /\ result.calls = <<receiver.value>>
        /\ container.exception = PyNone
        /\ container.value = func.val
    /\ (chainOk /\ steps >= 1) =>
        /\ container.exception = PyNone
        /\ container.value = lastReturned
        /\ unwrapped.called =>
              unwrapped.outcome = [tag |-> "return", val |-> lastReturned]

C6_ThenStep ==
    (chainOk' /\ steps' = steps + 1) =>
        result'.calls = <<IF steps = 0 THEN container.value ELSE lastReturned>>

C6_ThenAppliesTransform ==
    [](C6_ThenState) /\ [][C6_ThenStep]_vars

C6_Witness ==
    /\ chainOk /\ steps >= 2 /\ unwrapped.called
    /\ func.val # receiver.value
    /\ unwrapped.outcome = [tag |-> "return", val |-> func.val]

\* C7: recover on an Ok container holding v never invokes the transform
\* and yields an Ok container holding v.
C7_RecoverNoOpOnOk ==
    (op = "recover" /\ IsOk(receiver)) =>
        /\ result.calls = <<>>
        /\ result.raised = PyNone
        /\ container.exception = PyNone
        /\ container.value = receiver.value

C7_Witness ==
    /\ op = "recover" /\ IsOk(receiver)
    /\ func.tag = "return" /\ func.val # receiver.value
    /\ container.value = receiver.value /\ container.value # PyNone

\* C8: unwrap with no default on an Err container raises the stored error,
\* which is the error raised by the most recent failing then or recover
\* transform of the pipeline.
C8_UnwrapRaisesStored ==
    (unwrapped.called /\ InErr(container) /\ unwrapped.default = DEFAULT) =>
        /\ unwrapped.outcome = [tag |-> "raise", val |-> container.exception]
        /\ lastRaised # Absent => unwrapped.outcome.val = lastRaised

C8_Witness ==
    /\ unwrapped.called /\ InErr(container) /\ unwrapped.default = DEFAULT
    /\ unwrapped.exceptions = {}
    /\ op = "recover" /\ Invoked /\ func.tag = "raise"
    /\ receiver.exception # func.val
    /\ unwrapped.outcome = [tag |-> "raise", val |-> func.val]

\* C9: unwrap with a supplied default d (None included) on an Err
\* container returns d when the allow-list is empty; with a non-empty
\* allow-list it returns d if the stored error's class is listed and
\* raises the stored error otherwise.
C9_UnwrapDefault ==
    (unwrapped.called /\ InErr(container) /\ unwrapped.default # DEFAULT) =>
        unwrapped.outcome =
            IF \/ unwrapped.exceptions = {}
               \/ TypeOf(container.exception) \in unwrapped.exceptions
            THEN [tag |-> "return", val |-> unwrapped.default]
            ELSE [tag |-> "raise", val |-> container.exception]

C9_Witness ==
    /\ unwrapped.called /\ InErr(container)
    /\ unwrapped.default = PyNone
    /\ container.exception = PyExc("ZeroDivisionError")
    /\ unwrapped.exceptions = {"ArithmeticError", "AssertionError"}
    /\ unwrapped.outcome.tag = "raise"

\* C10: unwrap on an Ok container holding v returns v, for every default
\* and every allow-list, and never raises.
C10_UnwrapOk ==
    (unwrapped.called /\ IsOk(container)) =>
        unwrapped.outcome = [tag |-> "return", val |-> container.value]

C10_Witness ==
    /\ unwrapped.called /\ IsOk(container)
    /\ container.value = PyNone
    /\ unwrapped.default = PyInt(1)
    /\ unwrapped.exceptions # {}
    /\ unwrapped.outcome = [tag |-> "return", val |-> PyNone]

\* C11: on every container reached from Result(v) by then and recover
\* calls, in_error_state() is true exactly when the most recent transform
\* that was actually invoked raised (false while none was invoked); an Ok
\* container holding None reports false.
C11_InErrorStateIffLastRaised ==
    startedOk =>
        (Result_in_error_state(container) <=> lastCall = "raise")

C11_Witness ==
    /\ startedOk /\ steps >= 2
    /\ lastRaised # Absent /\ lastCall = "return"
    /\ container.value = PyNone
    /\ ~Result_in_error_state(container)

\* C12: every Result container produced by the constructor, then or
\* recover has its held value or its stored error equal to None.
C12_ValueOrErrorIsNone ==
    container.value = PyNone \/ container.exception = PyNone

\* Shorthands for the last then / filter / reduce call of the pipeline.
\* Xs and Items are the receiver's and the returned Array's elements.
Xs == call.receiver.value.items
Items == call.res.ret.value.items
Calls == call.res.calls
Out == call.res.ret

\* C13 (as claimed): then on a base Container, a Maybe or an Array never
\* lets a failure of the transform reach the caller.
C13_ThenNeverPropagates ==
    call.op = "then" => call.res.raised = PyNone

\* C13 (amended): then on a base Container, a Maybe or an Array lets the
\* failure of the transform reach the caller: when an invocation of the
\* transform raises, then raises that same exception and returns nothing;
\* then returns a container of the receiver's class exactly when no
\* invocation raised.
C13_ThenPropagatesFailure ==
    call.op = "then" =>
        IF Calls # <<>> /\ call.func[Len(Calls)].tag = "raise"
        THEN /\ call.res.raised = call.func[Len(Calls)].val
             /\ Out = Absent
             /\ obj = call.receiver
        ELSE /\ call.res.raised = PyNone
             /\ Out.cls = call.receiver.cls

C13_Witness ==
    /\ call.op = "then" /\ call.receiver.cls = "Array"
    /\ Len(Calls) = 2
    /\ call.func[1].tag = "return"
    /\ call.res.raised = PyExc("ZeroDivisionError")

\* C14: then on a Maybe holding None, with any transform and any extra
\* arguments, invokes the transform zero times and returns a Maybe holding
\* None.
C14_MaybeNoneSkips ==
    (call.op = "then" /\ call.receiver.cls = "Maybe"
        /\ call.receiver.value = PyNone) =>
        /\ Calls = <<>>
        /\ call.res.raised = PyNone
        /\ Out = Container_init("Maybe", PyNone)

C14_Witness ==
    /\ call.op = "then" /\ call.receiver.cls = "Maybe"
        /\ call.receiver.value = PyNone
    /\ call.args # <<>>
    /\ call.func[1] = [tag |-> "return", val |-> PyInt(1)]
    /\ Calls = <<>> /\ obj.value = PyNone

\* C15: in a pipeline of then calls on a Maybe, once a container holds
\* None (initially, or because a transform returned None) every later
\* container holds None and no later transform is invoked.
C15_NoneState ==
    (obj.cls = "Maybe" /\ none_at >= 0) => obj.value = PyNone

C15_NoneStep ==
    (obj.cls = "Maybe" /\ obj.value = PyNone /\ nsteps' = nsteps + 1) =>
        /\ obj'.cls = "Maybe" /\ obj'.value = PyNone
        /\ call'.res.calls = <<>>

C15_NoneStaysNone ==
    [](C15_NoneState) /\ [][C15_NoneStep]_vars

C15_Witness ==
    /\ obj.cls = "Maybe" /\ none_at >= 1 /\ nsteps >= none_at + 2
    /\ call.op = "then" /\ call.receiver.value = PyNone /\ Calls = <<>>
    /\ call.func[1].tag = "return" /\ call.func[1].val # PyNone
    /\ obj.value = PyNone

\* C16: unwrap(d) on a Maybe returns the held value when it is not None
\* and d when it is None; without a default a Maybe holding None unwraps
\* to None.
C16_MaybeUnwrap ==
    (unwrap_call.called /\ obj.cls = "Maybe") =>
        unwrap_call.outcome =
            IF obj.value # PyNone THEN obj.value
            ELSE IF unwrap_call.args = <<>> THEN PyNone
            ELSE unwrap_call.args[1]

C16_Witness ==
    /\ unwrap_call.called /\ obj.cls = "Maybe"
    /\ obj.value = PyNone /\ none_at >= 1
    /\ unwrap_call.args = <<PyInt(1)>>
    /\ unwrap_call.outcome = PyInt(1)

\* C17: then on an Array holding x1..xn, with a transform whose
\* invocations return, returns an Array of exactly n elements whose i-th
\* element is what the transform returned for xi.
C17_ArrayThenMaps ==
    (call.op = "then" /\ call.receiver.cls = "Array"
        /\ call.res.raised = PyNone) =>
        /\ Out.cls = "Array"
        /\ Len(Items) = Len(Xs)
        /\ Len(Calls) = Len(Xs)
        /\ \A i \in 1..Len(Xs) :
              /\ Calls[i] = <<Xs[i]>> \o call.args
              /\ Items[i] = call.func[i].val

C17_Witness ==
    /\ call.op = "then" /\ call.receiver.cls = "Array"
    /\ call.res.raised = PyNone
    /\ Len(Xs) = 2 /\ Xs[1] # Xs[2]
    /\ Items = <<call.func[1].val, call.func[2].val>>
    /\ Items[1] # Items[2]

\* The indices of the elements whose predicate invocation returned a
\* truthy value, and the k-th smallest of them.
Kept == {i \in 1..Len(Xs) : Truthy(call.func[i].val)}
KthKept(k) == CHOOSE i \in Kept : Cardinality({j \in Kept : j < i}) = k - 1

\* C18: filter on an Array, with a predicate whose invocations return,
\* returns an Array holding exactly the elements for which the invocation
\* returned a truthy value, in their original order.
C18_ArrayFilterKeepsTruthy ==
    (call.op = "filter" /\ call.res.raised = PyNone) =>
        /\ Out.cls = "Array"
        /\ \A i \in 1..Len(Xs) : Calls[i] = <<Xs[i]>> \o call.args
        /\ Len(Items) = Cardinality(Kept)
        /\ Len(Items) <= Len(Xs)
        /\ \A k \in 1..Len(Items) : Items[k] = Xs[KthKept(k)]

C18_Witness ==
    /\ call.op = "filter" /\ call.res.raised = PyNone
    /\ Len(Xs) = 2 /\ Xs[1] # Xs[2]
    /\ call.func[1].val = PyInt(0) /\ call.func[2].val = PyInt(1)
    /\ Items = <<Xs[2]>>

\* The accumulator handed to the i-th invocation of the combiner in a left
\* fold that starts from seed.
AccBefore(i, seed) == IF i = 1 THEN seed ELSE call.func[i - 1]

\* C19: reduce(c, a) with a supplied initial value a on an Array x1..xn
\* returns a base Container holding the left fold of c over the elements
\* starting from a, invoking c exactly n times; on an empty Array it holds
\* a.
C19_ReduceWithInitial ==
    (call.op = "reduce" /\ call.args # <<>>) =>
        /\ call.res.raised = PyNone
        /\ Out.cls = "Container"
        /\ Len(Calls) = Len(Xs)
        /\ \A i \in 1..Len(Xs) : Calls[i] = <<AccBefore(i, call.args[1]), Xs[i]>>
        /\ Out.value = AccBefore(Len(Xs) + 1, call.args[1])

\* C20: reduce(c) without an initial value seeds the accumulator with the
\* first element and invokes c once per remaining element (n - 1 times);
\* on an empty Array it raises (the TypeError of functools.reduce) instead
\* of returning a container.
C20_ReduceWithoutInitial ==
    (call.op = "reduce" /\ call.args = <<>>) =>
        IF Xs = <<>>
        THEN /\ call.res.raised = PyExc("TypeError")
             /\ Calls = <<>>
             /\ Out = Absent
        ELSE /\ call.res.raised = PyNone
             /\ Len(Calls) = Len(Xs) - 1
             /\ \A i \in 1..(Len(Xs) - 1) :
                   Calls[i] = <<AccBefore(i, Xs[1]), Xs[i + 1]>>
             /\ Out.value = AccBefore(Len(Xs), Xs[1])

C20_Witness ==
    /\ call.op = "reduce" /\ call.args = <<>>
    /\ Len(Xs) = 2 /\ Xs[1] # Xs[2]
    /\ Calls = <<(<<Xs[1], Xs[2]>>)>>
    /\ Out = Container_init("Container", call.func[1])
    /\ call.func[1] # Xs[1]

\* C21: a == b is true, in either operand order, exactly when a and b are
\* of the same class and hold equal values; a base Container never equals
\* a Maybe, Array or Result, whatever they hold.
C21_EqualIffSameClassAndValue ==
    hcall.op = "eq" =>
        LET a == heap[hcall.self]
            b == heap[hcall.other]
        IN  hcall.res = (ClassOf(a) = ClassOf(b) /\ a.value = b.value)

C21_Witness ==
    /\ hcall.op = "eq" /\ hcall.self = 1 /\ hcall.other = 2
    /\ ClassOf(heap[1]) = "Container" /\ ClassOf(heap[2]) = "Result"
    /\ heap[1].value = heap[2].value
    /\ hcall.res = FALSE

\* C22: then((f, name)) with a string name passes the held value to f as
\* the keyword argument name, also when the caller supplied a value under
\* that name among the extra keyword arguments.
C22_KeywordIsHeldValue ==
    (passed.op = "then" /\ passed.func.kind = "str") =>
        passed.res.kwcalls[1][passed.func.name] = passed.receiver.value

\* C23: a bare f receives the held value followed by the extra positional
\* arguments; (f, i) with 0 <= i <= number of extra positional arguments
\* receives the extra arguments with the held value inserted at index i,
\* the arguments before it in place and those after it shifted right.
C23_PositionalInjection ==
    passed.op = "then" =>
        LET v == passed.receiver.value
            a == passed.args
            c == passed.res.calls[1]
            i == passed.func.i
        IN  /\ passed.func.kind = "bare" => c = <<v>> \o a
            /\ (passed.func.kind = "int" /\ 0 <= i /\ i <= Len(a)) =>
                  /\ Len(c) = Len(a) + 1
                  /\ c[i + 1] = v
                  /\ \A j \in 1..Len(a) :
                        c[IF j <= i THEN j ELSE j + 1] = a[j]

C23_Witness ==
    /\ passed.op = "then" /\ passed.func.kind = "int" /\ passed.func.i = 1
    /\ passed.receiver.value = PyInt(0)
    /\ passed.args = <<PyNone, PyInt(1)>>
    /\ passed.res.calls = <<(<<PyNone, PyInt(0), PyInt(1)>>)>>

\* C24: then, filter, reduce, recover and unwrap leave their receiver as
\* it was, whether they return or raise: its held value and, for a Result,
\* its stored error and its checkpoint; no other existing container
\* changes either.
C24_ReceiverState ==
    hcall.op # "init" => heap[hcall.self] = hcall.before

C24_HeapStep ==
    \A i \in 1..Len(heap) : heap'[i] = heap[i]

ReturnsSelf ==
    /\ ClassOf(hcall.before) = "Result"
    /\ \/ hcall.op = "then" /\ Truthy(hcall.before.exception)
       \/ hcall.op = "recover" /\ ~Truthy(hcall.before.exception)

\* C25 (as claimed): every then, filter, reduce or recover call that
\* returns hands back a container that is not its receiver.
C25_AlwaysFresh ==
    (hcall.op \in {"then", "filter", "reduce", "recover"}
        /\ hcall.raised = PyNone) => hcall.ret # hcall.self

\* C25 (amended): a then, filter, reduce or recover call that returns
\* hands back a newly built container, distinct from every container that
\* existed before, except then on a Result with a stored error and recover
\* on a Result without one, which hand back the receiver itself.
C25_FreshUnlessNoOp ==
    (hcall.op \in {"then", "filter", "reduce", "recover"}
        /\ hcall.raised = PyNone) =>
        IF ReturnsSelf THEN hcall.ret = hcall.self
        ELSE hcall.ret = Len(heap) /\ hcall.ret # hcall.self

C25_Witness ==
    /\ hcall.op = "recover" /\ hcall.self = 2 /\ hcall.ret = 2
    /\ Len(heap) = 2
    /\ ClassOf(heap[2]) = "Result" /\ heap[2].exception = PyNone
    /\ heap[1].exception = PyNone

\* C26: then on an Array invokes the transform once per element, on the
\* elements in sequence order, an element being visited only after the
\* invocations on all earlier elements returned; when then returns, every
\* element has been visited.
C26_ArrayThenInOrder ==
    (call.op = "then" /\ call.receiver.cls = "Array") =>
        /\ Len(Calls) <= Len(Xs)
        /\ \A i \in 1..Len(Calls) : Calls[i][1] = Xs[i]
        /\ \A i \in 1..(Len(Calls) - 1) : call.func[i].tag = "return"
        /\ call.res.raised = PyNone => Len(Calls) = Len(Xs)

C26_Witness ==
    /\ call.op = "then" /\ call.receiver.cls = "Array"
    /\ call.res.raised = PyNone /\ call.args # <<>>
    /\ Len(Xs) = 2 /\ Xs[1] # Xs[2]
    /\ Calls = <<(<<Xs[1]>> \o call.args), (<<Xs[2]>> \o call.args)>>

\* C27: then on a base Container returns a base Container holding what the
\* transform returned for the held value, unwrap returns the held value,
\* and every then of a pipeline is applied to the container the previous
\* then returned, so the pipeline unwraps to fn(...f1(v)).
C27_ThenState ==
    /\ (call.op = "then" /\ call.receiver.cls = "Container"
           /\ call.res.raised = PyNone) =>
          /\ Out = Container_init("Container", call.func[1].val)
          /\ Calls = <<(<<call.receiver.value>> \o call.args)>>
          /\ obj = Out
    /\ (unwrap_call.called /\ obj.cls = "Container") =>
          unwrap_call.outcome = obj.value

C27_ThenStep ==
    (obj.cls = "Container" /\ nsteps' = nsteps + 1) =>
        call'.receiver = obj

C27_ContainerPipeline ==
    [](C27_ThenState) /\ [][C27_ThenStep]_vars

C27_Witness ==
    /\ nsteps = MaxSteps /\ call.op = "then"
    /\ call.receiver.cls = "Container" /\ call.res.raised = PyNone
    /\ unwrap_call.called
    /\ unwrap_call.outcome = call.func[1].val
    /\ call.receiver.value # call.func[1].val

\* C28: a function wrapped with retry(N), N >= 1, without error classes
\* is invoked at most N times, each invocation after the first following
\* a failed one; the call hands back the result of the first invocation
\* that returns and invokes the function no more, and when N invocations
\* failed it raises the failure of the N-th.
C28_RetryState ==
    (wrapped.deco = "retry" /\ wrapped.retries >= 1
        /\ wrapped.exceptions = {}) =>
        /\ Len(log) <= wrapped.retries
        /\ \A k \in 1..(Len(log) - 1) : log[k].tag = "raise"
        /\ outcome # Absent =>
              /\ Len(log) >= 1
              /\ outcome = log[Len(log)]
              /\ outcome.tag = "raise" => Len(log) = wrapped.retries
        /\ (outcome = Absent /\ Len(log) >= 1) =>
              log[Len(log)].tag = "raise"

C28_RetryStep ==
    outcome # Absent => log' = log

C28_RetryAtMostN ==
    [](C28_RetryState) /\ [][C28_RetryStep]_vars

C28_Witness ==
    /\ wrapped.deco = "retry" /\ wrapped.retries = MaxRetries
    /\ wrapped.exceptions = {}
    /\ Len(log) = MaxRetries
    /\ log[1].val # log[MaxRetries].val
    /\ outcome = [tag |-> "raise", val |-> log[MaxRetries].val]

\* C29: a function wrapped with retry(N, classes...) with at least one
\* class is invoked again only after a failure whose class is listed; a
\* failure of any other class is raised to the caller at once and is the
\* last invocation.
C29_RetryOnlyListed ==
    (wrapped.deco = "retry" /\ wrapped.exceptions # {}) =>
        \A k \in 1..Len(log) :
            /\ k < Len(log) =>
                  /\ log[k].tag = "raise"
                  /\ TypeOf(log[k].val) \in wrapped.exceptions
            /\ (log[k].tag = "raise"
                   /\ TypeOf(log[k].val) \notin wrapped.exceptions) =>
                  /\ k = Len(log)
                  /\ outcome = log[k]

C29_Witness ==
    /\ wrapped.deco = "retry" /\ wrapped.retries = MaxRetries
    /\ wrapped.exceptions = {"ArithmeticError"}
    /\ log = <<[tag |-> "raise", val |-> PyExc("ArithmeticError")],
               [tag |-> "raise", val |-> PyExc("ZeroDivisionError")]>>
    /\ outcome = [tag |-> "raise", val |-> PyExc("ZeroDivisionError")]

\* C30: a function wrapped with coerce_into(value, classes...) is invoked
\* exactly once per call; the call hands back the function's result when
\* it returns, value when it raises and either no class was given or the
\* failure's class is listed, and raises that failure otherwise.
C30_CoerceInto ==
    wrapped.deco = "coerce_into" =>
        IF outcome = Absent THEN log = <<>>
        ELSE /\ Len(log) = 1
             /\ outcome =
                  IF log[1].tag = "return" THEN log[1]
                  ELSE IF wrapped.exceptions = {}
                          \/ TypeOf(log[1].val) \in wrapped.exceptions
                       THEN [tag |-> "return", val |-> wrapped.value]
                       ELSE log[1]

C30_Witness ==
    /\ wrapped.deco = "coerce_into"
    /\ wrapped.exceptions = {"ArithmeticError"}
    /\ log = <<[tag |-> "raise", val |-> PyExc("ZeroDivisionError")]>>
    /\ outcome = [tag |-> "raise", val |-> PyExc("ZeroDivisionError")]

\* C31: a call of a mutation_free function leaves every object the caller
\* passed, positionally or by keyword, as it was, whatever the function
\* appends to the lists it receives or to the lists they hold, and hands
\* back what the function returned or raised.
C31_CallerObjectsUnchanged ==
    mcall.op = "call" =>
        /\ \A id \in 1..Len(mcall.before) : mem[id] = mcall.before[id]
        /\ mcall.outcome = mcall.func

C31_Witness ==
    /\ mcall.op = "call" /\ mcall.args = <<Ref(2)>>
    /\ mcall.mut.nested /\ mcall.mutated > Len(mcall.before)
    /\ mem[mcall.mutated] = Append(mcall.before[1], PyInt(1))
    /\ mcall.outcome.tag = "return"

\* C32: str of a container is its class name followed, in parentheses, by
\* str of the held value for Container and Maybe, by the str of the
\* elements joined with ", " for Array, and for Result by str of the held
\* value when no error is stored and by the stored error's message when
\* one is.
C32_Rendering ==
    hcall.op = "str" =>
        LET o == hcall.before
            content ==
                CASE ClassOf(o) = "Result" ->
                        (IF o.exception = PyNone THEN PyStr(o.value)
                         ELSE Description(o.exception))
                  [] ClassOf(o) = "Array" ->
                        Join([i \in 1..Len(o.value.items) |->
                                 PyStr(o.value.items[i])], ", ")
                  [] OTHER -> PyStr(o.value)
        IN  hcall.res = ClassOf(o) \o "(" \o content \o ")"

C32_Witness ==
    /\ hcall.op = "str" /\ hcall.self = 2
    /\ ClassOf(heap[1]) = "Result" /\ heap[1].value = PyInt(1)
    /\ heap[2].value_to_recover = PyInt(1)
    /\ hcall.res = "Result(division by zero)"

\* C33: a Result with a stored error never compares equal to a Result
\* without one, whatever the two hold.
C33_ErrNeverEqualsOk ==
    (/\ hcall.op = "eq"
     /\ ClassOf(heap[hcall.self]) = "Result"
     /\ ClassOf(heap[hcall.other]) = "Result"
     /\ heap[hcall.self].exception # PyNone
     /\ heap[hcall.other].exception = PyNone) =>
        hcall.res = FALSE

\* C34: for every number of retries, 0 included, a call of a function
\* wrapped with retry hands back what one of the invocations of the
\* function returned or raised.
C34_RetryOwnFailuresOnly ==
    (wrapped.deco = "retry" /\ outcome # Absent) =>
        \E k \in 1..Len(log) : log[k] = outcome

\* bind(f_k)...bind(f_n) applied in turn, starting from m.
RECURSIVE BindChain(_, _, _)
BindChain(m, funcs, k) ==
    IF k > Len(funcs) THEN m
    ELSE BindChain(Monad_bind(m, funcs[k]), funcs, k + 1)

\* C35: pipe(f1, ..., fn) returns the container that bind(f1)...bind(fn)
\* returns, and pipe() returns the receiver.
C35_PipeIsChainedBind ==
    pcall.op = "pipe" =>
        /\ pcall.res.ret = BindChain(pcall.receiver, pcall.funcs, 1)
        /\ pcall.funcs = <<>> => pcall.res.is_self
====
